---------------------------- MODULE Spec2Model ----------------------------
(***************************************************************************)
(* Model of src/_make_dataset.py: bounding boxes of masks, decomposition   *)
(* of class planes into objects, the scoped substitution of representative *)
(* images, the random placement of foreground objects and the synthesis    *)
(* and rotation-sweep drivers.                                             *)
(*                                                                         *)
(* Conventions.  A boolean plane is a record [h, w, on] where on is the    *)
(* set of its true pixels <<row, col>>, rows 0..h-1 and columns 0..w-1.    *)
(* An image is a record [h, w, px] where px maps every pixel to its value; *)
(* the three colour channels of the code are always read and written       *)
(* together, so one value stands for the channel triple.                   *)
(***************************************************************************)
EXTENDS Integers, Sequences, FiniteSets, TLC

(* ------------------------------ bounds -------------------------------- *)

\* largest height and width of the planes fed to the pure geometry functions
MaxH == 3
MaxW == 3

(* --------------------------- small helpers ---------------------------- *)

Min(S) == CHOOSE x \in S : \A y \in S : x <= y
Max(S) == CHOOSE x \in S : \A y \in S : x >= y
Abs(x) == IF x < 0 THEN -x ELSE x

\* Python's None
None == "None"

Pos(h, w) == (0 .. h - 1) \X (0 .. w - 1)
Rows(S) == {p[1] : p \in S}
Cols(S) == {p[2] : p \in S}

Plane(h, w, on) == [h |-> h, w |-> w, on |-> on]

(* ------------------- get_bbox and its conversions --------------------- *)

\* torchvision.ops.masks_to_boxes on one plane: (x1, y1, x2, y2) with
\* x1 = min column, y1 = min row, x2 = max column, y2 = max row of the
\* true pixels (torch.min / torch.max over torch.where(mask != 0)).
masks_to_boxes(mask) ==
    << Min(Cols(mask.on)), Min(Rows(mask.on)),
       Max(Cols(mask.on)), Max(Rows(mask.on)) >>

\* get_bbox on a 2-D mask raises when the plane has no true pixel: torch.min
\* of an empty tensor, or ret[0] of an empty list for a plane with no pixel.
get_bbox_raises(mask) == mask.on = {}

\* get_bbox on a 2-D mask: left, top, right, bottom = box
get_bbox(mask) ==
    LET box == masks_to_boxes(mask)
    IN  [left |-> box[1], right |-> box[3], top |-> box[2], bottom |-> box[4]]

\* (x_min, y_min, x_max, y_max)
bbox_to_pascal_voc(bbox) == << bbox.left, bbox.top, bbox.right, bbox.bottom >>

\* normalized (x_center, y_center, width, height); every value is the exact
\* fraction <<numerator, denominator>> of the float the code computes:
\* x_center = 0.5 * (x_min + x_max) / image_width, width = (x_max - x_min) / image_width
bbox_to_yolo(bbox, image_width, image_height) ==
    LET v == bbox_to_pascal_voc(bbox)
    IN  [x_center |-> << v[1] + v[3], 2 * image_width >>,
         y_center |-> << v[2] + v[4], 2 * image_height >>,
         width    |-> << v[3] - v[1], image_width >>,
         height   |-> << v[4] - v[2], image_height >>]

(* ----------------------- make_objectwise_mask ------------------------- *)

\* 8-adjacency: skimage.measure.label is called without `connectivity`, whose
\* default is the full connectivity input.ndim = 2
Adjacent8(p, q) == p # q /\ Abs(p[1] - q[1]) <= 1 /\ Abs(p[2] - q[2]) <= 1
\* 4-adjacency (connectivity = 1), for comparison
Adjacent4(p, q) == Abs(p[1] - q[1]) + Abs(p[2] - q[2]) = 1

RECURSIVE Grow8(_, _)
Grow8(S, on) ==
    LET N == S \cup {q \in on : \E p \in S : Adjacent8(p, q)}
    IN  IF N = S THEN S ELSE Grow8(N, on)

RECURSIVE Grow4(_, _)
Grow4(S, on) ==
    LET N == S \cup {q \in on : \E p \in S : Adjacent4(p, q)}
    IN  IF N = S THEN S ELSE Grow4(N, on)

Components8(on) == {Grow8({p}, on) : p \in on}
Components4(on) == {Grow4({p}, on) : p \in on}

Raster(p, w) == p[1] * w + p[2]

\* the elements of a finite set of integers in ascending order (np.unique)
RECURSIVE Sorted(_)
Sorted(S) == IF S = {} THEN << >> ELSE << Min(S) >> \o Sorted(S \ {Min(S)})

\* skimage.measure.label of one plane: 0 on the background, 1..k on the
\* components, numbered in raster order of their first pixel
measure_label(plane) ==
    LET comps == Components8(plane.on)
        first(c) == Min({Raster(p, plane.w) : p \in c})
        id(c) == Cardinality({d \in comps : first(d) <= first(c)})
    IN  [p \in Pos(plane.h, plane.w) |->
            IF p \in plane.on
            THEN id(CHOOSE c \in comps : p \in c)
            ELSE 0]

\* object_id = np.unique(objectwise_masks)[1:]: the distinct labels in
\* ascending order without the first of them
object_ids(labels) ==
    LET u == Sorted({labels[p] : p \in DOMAIN labels})
    IN  IF u = << >> THEN << >> ELSE Tail(u)

\* one class plane of make_objectwise_mask: a plane per object id, true
\* where the labelling equals that id
objectwise_masks(plane) ==
    LET labels == measure_label(plane)
        ids == object_ids(labels)
    IN  [i \in 1 .. Len(ids) |->
            Plane(plane.h, plane.w, {p \in DOMAIN labels : labels[p] = ids[i]})]

\* make_objectwise_mask: class index (0-based) -> its object masks
make_objectwise_mask(classwise_masks, n_class) ==
    [i_class \in 0 .. n_class - 1 |-> objectwise_masks(classwise_masks[i_class + 1])]


(* ------------------------------ images -------------------------------- *)

\* number of representative images of the field video, and their size
NRep == 2
RepH == 3
RepW == 3
\* largest colour shift an augmentation applies
MaxAug == 1
\* most substitution blocks open at once
MaxDepth == 2

Reps == 1 .. NRep

Image(h, w, px) == [h |-> h, w |-> w, px |-> px]
Flat(h, w, v) == Image(h, w, [p \in Pos(h, w) |-> v])
SameSize(a, b) == a.h = b.h /\ a.w = b.w

\* the image file read by RepImage.__post_init__
read_image(r) == Image(RepH, RepW, [p \in Pos(RepH, RepW) |-> 1 + ((p[1] + p[2] + r) % 2)])

\* an appearance-only transform: same size, every pixel value shifted
Shifted(img, s) == Image(img.h, img.w, [p \in DOMAIN img.px |-> img.px[p] + 2 * s])

\* an image that fits no representative image
Misfit == Flat(RepH + 1, RepW, 0)

(* --------------------- the pool of foreground objects ----------------- *)

\* len(field_video.classes)
NClass == 3
Classes == 0 .. NClass - 1

\* the class planes read from the mask files (make_classwise_mask): image 1
\* holds one class-0 object whose box has a false corner; image 2 holds a
\* one-pixel class-0 object and a 2 x 2 class-2 object; class 1 is empty
classwise_mask(r) ==
    [c \in 1 .. NClass |->
        Plane(RepH, RepW,
            IF r = 1 /\ c = 1 THEN {<< 0, 1 >>, << 1, 0 >>, << 1, 1 >>, << 2, 2 >>}
            ELSE IF r = 2 /\ c = 1 THEN {<< 2, 2 >>}
            ELSE IF r = 2 /\ c = 3 THEN (0 .. 1) \X (0 .. 1)
            ELSE {})]

\* ForegroundObject(rep_image, mask, i_class) and its __post_init__: the box
ForegroundObject(r, mask, cls) ==
    [rep |-> r, mask |-> mask, i_class |-> cls, bbox |-> get_bbox(mask)]

\* RepImage.__post_init__: the objects of every class, from the class planes
construct_objects(r) ==
    LET objectwise_mask == make_objectwise_mask(classwise_mask(r), NClass)
    IN  [c \in Classes |->
            [i \in 1 .. Len(objectwise_mask[c]) |->
                ForegroundObject(r, objectwise_mask[c][i], c)]]

VARIABLES
    image,        \* RepImage.image of every representative image (the live image)
    rep_objects,  \* RepImage.objects of every representative image: class -> objects
    orig_image,   \* RepImage.orig_image, shared with FieldVideo.orig_images
    device,       \* RepImage.device of every representative image
    aliased,      \* whether the objects' image_cropped still view RepImage.image
    detached,     \* the tensor the image_cropped view once they no longer do
    stack,        \* the open rep_images_as / image_as blocks, innermost last
    last_exit,    \* how the block that ended in the last step ended, and what it began with
    pl,           \* the last call of ForegroundObject.random_place: inputs, draws, outcome
    syn_pc,       \* where the running call of synthesize stands
    x,            \* synthesize: the normal sample, in units of 1 / SampleDen
    n_obj,        \* synthesize: n_obj
    it,           \* synthesize: placement iterations that have completed
    prob,         \* synthesize: the classes of non-zero probability, or None
    i_class,      \* synthesize: the class drawn last in the running iteration
    objects,      \* synthesize: the candidate objects of the running iteration
    frame_aug,    \* synthesize: the augmented frame the objects are placed on
    label,        \* synthesize: the YoloLabel, a sequence of entries
    placed,       \* synthesize: the objects placed so far, in order
    fn_pc, fn_mask, fn_bbox, fn_yolo, fn_objs,   \* a call of the pure geometry functions
    sw_pc,        \* where the running call of generate_rotated_rep_image stands
    sw_concat,    \* generate_rotated_rep_image: concat, the image and the class planes
    sw_degree,    \* generate_rotated_rep_image: degree of the iteration made last
    sw_image,     \* the image of the pair saved last
    sw_label,     \* the label of the pair saved last
    sw_count      \* the pairs saved so far (the calls of counter)

devVars == << device, aliased, detached >>
apiVars == << image, rep_objects, orig_image, stack, last_exit, devVars >>
synVars == << syn_pc, x, n_obj, it, prob, i_class, objects, frame_aug, label, placed >>
fnVars == << fn_pc, fn_mask, fn_bbox, fn_yolo, fn_objs >>
swVars == << sw_pc, sw_concat, sw_degree, sw_image, sw_label, sw_count >>
vars == << apiVars, pl, synVars, fnVars, swVars >>

RECURSIVE Concat(_, _, _)
\* f[from] \o ... \o f[to]
Concat(f, from, to) == IF from > to THEN << >> ELSE f[from] \o Concat(f, from + 1, to)

\* the keyword arguments of get_objects: none, or i_class
NoKwargs == << >>
ByClass(c) == [i_class |-> c]

\* RepImage.get_objects(**kwargs): every class in turn when there is no
\* keyword argument, the objects of class i_class otherwise
rep_get_objects(r, kwargs) ==
    IF DOMAIN kwargs = {}
    THEN Concat(rep_objects[r], 0, NClass - 1)
    ELSE rep_objects[r][kwargs.i_class]

\* FieldVideo.get_objects(**kwargs)
get_objects(kwargs) == Concat([r \in Reps |-> rep_get_objects(r, kwargs)], 1, NRep)

AllObjects == {get_objects(NoKwargs)[i] : i \in 1 .. Len(get_objects(NoKwargs))}

\* The tensors the objects' image_cropped are views of: crop slices
\* self.rep_image.image as it was bound when the object was constructed.
\* set_image writes that tensor in place; RepImage.to rebinds self.image to
\* a copy on the other device and leaves the views on the old tensor.
image_cropped_base == [r \in Reps |-> IF aliased[r] THEN image[r] ELSE detached[r]]

NoExit == [how |-> "none", targets |-> {}, before |-> << >>, installed |-> {}]

(* ---------------- RepImage.set_image and the two blocks --------------- *)

\* the assert of set_image
set_image_fits(img, new_image) == SameSize(new_image, img)

\* self.image[:] = new_image, on the images imgs
set_image(imgs, r, new_image) == [imgs EXCEPT ![r] = new_image]

\* the representative images the try part of rep_images_as substitutes, in
\* list order, before the first substitute that does not fit (all of them
\* when every substitute fits)
installed_prefix(imgs, tmp_images) ==
    {r \in Reps : \A q \in 1 .. r : set_image_fits(imgs[q], tmp_images[q])}

\* a faulty variant: the block leaves the images as they are
no_restore(imgs, targets) == imgs

\* the finally part of rep_images_as (targets: every representative image)
\* and of image_as (targets: the one image): set_image(orig_image)
restore(imgs, targets) ==
    [r \in Reps |-> IF r \in targets THEN orig_image[r] ELSE imgs[r]]

\* the images after the try part has substituted `done`
install(imgs, tmp_images, done) ==
    [r \in Reps |-> IF r \in done THEN tmp_images[r] ELSE imgs[r]]

Block(kind, targets, before) == [kind |-> kind, targets |-> targets, before |-> before]

\* what a caller may pass as a substitute of representative image r
TmpImages(r) == {Shifted(read_image(r), s) : s \in 1 .. MaxAug} \cup {Misfit}


(* --------------------- ForegroundObject.random_place ------------------ *)

\* ForegroundObject.crop on an image: tensor[top:bottom, left:right]
crop_image(bbox, img) ==
    LET h == Max({0, bbox.bottom - bbox.top})
        w == Max({0, bbox.right - bbox.left})
    IN  Image(h, w, [p \in Pos(h, w) |-> img.px[<< bbox.top + p[1], bbox.left + p[2] >>]])

\* ForegroundObject.crop on a mask
crop_plane(bbox, mask) ==
    LET h == Max({0, bbox.bottom - bbox.top})
        w == Max({0, bbox.right - bbox.left})
    IN  Plane(h, w, {p \in Pos(h, w) : << bbox.top + p[1], bbox.left + p[2] >> \in mask.on})

\* Rotation with expand=True by k quarter turns counter-clockwise, the
\* angles at which the expanded canvas and the nearest-neighbour resampling
\* of torchvision are exact: the pixel of the input that output pixel q shows.
QuarterTurns == 0 .. 3
RotH(h, w, k) == IF k % 2 = 0 THEN h ELSE w
RotW(h, w, k) == IF k % 2 = 0 THEN w ELSE h
RotSrc(h, w, k, q) ==
    CASE k = 0 -> q
      [] k = 1 -> << q[2], w - 1 - q[1] >>
      [] k = 2 -> << h - 1 - q[1], w - 1 - q[2] >>
      [] k = 3 -> << h - 1 - q[2], q[1] >>

rotate_image(img, k) ==
    LET h == RotH(img.h, img.w, k)
        w == RotW(img.h, img.w, k)
    IN  Image(h, w, [q \in Pos(h, w) |-> img.px[RotSrc(img.h, img.w, k, q)]])

rotate_plane(mask, k) ==
    LET h == RotH(mask.h, mask.w, k)
        w == RotW(mask.h, mask.w, k)
    IN  Plane(h, w, {q \in Pos(h, w) : RotSrc(mask.h, mask.w, k, q) \in mask.on})

\* a faulty variant: the whole h x w rectangle is overwritten
paste_rectangle(background, img, mask, top, left) ==
    [background EXCEPT !.px =
        [p \in DOMAIN background.px |->
            IF << p[1] - top, p[2] - left >> \in DOMAIN img.px
            THEN img.px[<< p[1] - top, p[2] - left >>]
            ELSE background.px[p]]]

\* background[:, top:top+h, left:left+w][:, mask] = image[:, mask]
paste(background, img, mask, top, left) ==
    [background EXCEPT !.px =
        [p \in DOMAIN background.px |->
            IF << p[1] - top, p[2] - left >> \in mask.on
            THEN img.px[<< p[1] - top, p[2] - left >>]
            ELSE background.px[p]]]

\* the shape of background[:, top:top+h, left:left+w]: a slice is cut at the
\* end of the tensor
slice_len(from, len, size) == Max({0, Min({from + len, size}) - from})

\* the extent the offsets are drawn for: self.rep_image.height / .width
draw_extent(size, canvas_size) == size

Placement(outcome, obj, background, k, h, w, top, left, rimg, rmask, after, bbox) ==
    [outcome |-> outcome, obj |-> obj, before |-> background, k |-> k, h |-> h, w |-> w,
     top |-> top, left |-> left, image_cropped |-> rimg, mask_cropped |-> rmask,
     after |-> after, bbox |-> bbox]

\* Every way obj.random_place(background) can go when the rotation is by k
\* quarter turns and imgs are the tensors the image_cropped view.  outcome "ok": the call
\* returned bbox and left the background as after; any other outcome names
\* the statement that raised.
random_place(obj, background, k, imgs) ==
    LET image_cropped0 == crop_image(obj.bbox, imgs[obj.rep])   \* self.image_cropped
        mask_cropped0 == crop_plane(obj.bbox, obj.mask)
        image_cropped == rotate_image(image_cropped0, k)
        mask_cropped == rotate_plane(mask_cropped0, k)
        h == image_cropped.h
        w == image_cropped.w
        high_top == draw_extent(imgs[obj.rep].h, background.h) - h
        high_left == draw_extent(imgs[obj.rep].w, background.w) - w
        fail(at) == Placement(at, obj, background, k, h, w, 0, 0,
                              image_cropped, mask_cropped, background, None)
    IN  IF image_cropped0.h = 0 \/ image_cropped0.w = 0
        THEN {fail("rotate raised")}            \* nothing to resample
        ELSE IF high_top <= 0 \/ high_left <= 0
        THEN {fail("randint raised")}           \* np.random.randint(0, high), high <= 0
        ELSE
          { IF slice_len(top, h, background.h) # h \/ slice_len(left, w, background.w) # w
            THEN Placement("paste raised", obj, background, k, h, w, top, left,
                           image_cropped, mask_cropped, background, None)
            ELSE IF get_bbox_raises(mask_cropped)
            THEN Placement("get_bbox raised", obj, background, k, h, w, top, left,
                           image_cropped, mask_cropped,
                           paste(background, image_cropped, mask_cropped, top, left), None)
            ELSE LET bbox == get_bbox(mask_cropped)
                 IN  Placement("ok", obj, background, k, h, w, top, left,
                               image_cropped, mask_cropped,
                               paste(background, image_cropped, mask_cropped, top, left),
                               [top |-> bbox.top + top, bottom |-> bbox.bottom + top,
                                left |-> bbox.left + left, right |-> bbox.right + left])
            : << top, left >> \in (0 .. high_top - 1) \X (0 .. high_left - 1) }

(* ------------------------- the states at rest ------------------------- *)

NoPlace == [outcome |-> "none"]
\* prob=None, and a class-probability vector by the classes of non-zero probability
NoProb == [given |-> FALSE, support |-> {}]
Prob(support) == [given |-> TRUE, support |-> support]
\* no class drawn yet
NoClass == 0 - 1
\* largest side of the canvases random_place is called on directly
MaxCanvas == 4
NoImage == Flat(0, 0, 0)

ApiRest ==
    /\ image = [r \in Reps |-> read_image(r)]
    /\ rep_objects = [r \in Reps |-> construct_objects(r)]
    \* self.orig_image = self.image.detach().clone()
    /\ orig_image = [r \in Reps |-> read_image(r)]
    /\ device = [r \in Reps |-> "cpu"]
    \* self.image_cropped = self.crop(self.rep_image.image): a view
    /\ aliased = [r \in Reps |-> TRUE]
    /\ detached = [r \in Reps |-> read_image(r)]
    /\ stack = << >>
    /\ last_exit = NoExit
    /\ pl = NoPlace

SynRest ==
    /\ syn_pc = "idle"
    /\ x = 0
    /\ n_obj = 0
    /\ it = 0
    /\ prob = NoProb
    /\ i_class = NoClass
    /\ objects = << >>
    /\ frame_aug = NoImage
    /\ label = << >>
    /\ placed = << >>

FnRest ==
    /\ fn_pc = "idle"
    /\ fn_mask = Plane(0, 0, {})
    /\ fn_bbox = None
    /\ fn_yolo = None
    /\ fn_objs = << >>

NoConcat == [image |-> NoImage, classwise_mask |-> << >>]
NoDegree == 0 - 1

SwRest ==
    /\ sw_pc = "idle"
    /\ sw_concat = NoConcat
    /\ sw_degree = NoDegree
    /\ sw_image = NoImage
    /\ sw_label = << >>
    /\ sw_count = 0

(* ------------- the pure geometry functions on bounded planes ---------- *)

\* the 10 x 10 plane true exactly at rows [2, 5) and columns [4, 7)
ScenarioMask == Plane(10, 10, (2 .. 4) \X (4 .. 6))

Planes ==
    {Plane(h, w, on) : << h, w, on >> \in
        UNION {{<< h, w, on >> : on \in SUBSET Pos(h, w)} : << h, w >> \in (1 .. MaxH) \X (1 .. MaxW)}}
    \cup {ScenarioMask}

GeomInit ==
    /\ ApiRest /\ SynRest /\ SwRest
    /\ fn_pc = "input"
    /\ fn_mask \in Planes
    /\ fn_bbox = None
    /\ fn_yolo = None
    /\ fn_objs = << >>

\* get_bbox(mask) on the plane
GetBbox ==
    /\ fn_pc = "input"
    /\ IF get_bbox_raises(fn_mask)
       THEN fn_pc' = "raised" /\ fn_bbox' = None
       ELSE fn_pc' = "bbox" /\ fn_bbox' = get_bbox(fn_mask)
    /\ UNCHANGED << fn_mask, fn_yolo, fn_objs, apiVars, pl, synVars, swVars >>

\* bbox_to_yolo of that box, at the plane's width and height
BboxToYolo ==
    /\ fn_pc = "bbox"
    /\ fn_yolo' = bbox_to_yolo(fn_bbox, fn_mask.w, fn_mask.h)
    /\ fn_pc' = "yolo"
    /\ UNCHANGED << fn_mask, fn_bbox, fn_objs, apiVars, pl, synVars, swVars >>

\* make_objectwise_mask of the one-class stack holding the plane
MakeObjectwiseMask ==
    /\ fn_pc = "input"
    /\ fn_objs' = make_objectwise_mask(<< fn_mask >>, 1)[0]
    /\ fn_pc' = "objects"
    /\ UNCHANGED << fn_mask, fn_bbox, fn_yolo, apiVars, pl, synVars, swVars >>

GeomNext == GetBbox \/ BboxToYolo \/ MakeObjectwiseMask

GeomSpec == GeomInit /\ [][GeomNext]_vars

\* a fraction <<n, d>> equals the decimal c / 100
IsHundredths(f, c) == 100 * f[1] = c * f[2]

\* C2: for every plane with a true pixel get_bbox returns the half-open tight
\* box (top = smallest true row, bottom = largest true row + 1, left =
\* smallest true column, right = largest true column + 1), of positive width
\* and height; the 10 x 10 scenario plane has the box {2, 5, 4, 7} and the
\* yolo encoding (0.55, 0.35, 0.3, 0.3).
C2_TightHalfOpenBox ==
    /\ fn_pc \in {"bbox", "yolo"} =>
          /\ fn_bbox.top = Min(Rows(fn_mask.on))
          /\ fn_bbox.bottom = Max(Rows(fn_mask.on)) + 1
          /\ fn_bbox.left = Min(Cols(fn_mask.on))
          /\ fn_bbox.right = Max(Cols(fn_mask.on)) + 1
          /\ fn_bbox.right - fn_bbox.left > 0
          /\ fn_bbox.bottom - fn_bbox.top > 0
    /\ (fn_pc \in {"bbox", "yolo"} /\ fn_mask = ScenarioMask) =>
          fn_bbox = [top |-> 2, bottom |-> 5, left |-> 4, right |-> 7]
    /\ (fn_pc = "yolo" /\ fn_mask = ScenarioMask) =>
          /\ IsHundredths(fn_yolo.x_center, 55)
          /\ IsHundredths(fn_yolo.y_center, 35)
          /\ IsHundredths(fn_yolo.width, 30)
          /\ IsHundredths(fn_yolo.height, 30)

\* C3: make_objectwise_mask returns one mask per 4-connected blob of the
\* plane (blobs that touch only diagonally counted apart), each mask equal
\* to one blob, their union the plane, and no mask for a plane without a
\* true pixel.
C3_OneMaskPerBlob ==
    fn_pc = "objects" =>
        LET blobs == Components4(fn_mask.on)
            got == {fn_objs[i].on : i \in 1 .. Len(fn_objs)}
        IN  /\ Len(fn_objs) = Cardinality(blobs)
            /\ got = blobs
            /\ UNION got = fn_mask.on
            /\ (fn_mask.on = {} => fn_objs = << >>)


(* ------------- the substitution blocks, called by a client ------------ *)

\* synthesize is not running (the program is single-threaded)
SynStopped == syn_pc \in {"idle", "done", "failed"}

\* the results of a finished synthesize call are dropped
SynClear ==
    /\ syn_pc' = "idle"
    /\ x' = 0
    /\ n_obj' = 0
    /\ it' = 0
    /\ prob' = NoProb
    /\ i_class' = NoClass
    /\ objects' = << >>
    /\ frame_aug' = NoImage
    /\ label' = << >>
    /\ placed' = << >>

Top == stack[Len(stack)]
Pop(st) == SubSeq(st, 1, Len(st) - 1)

\* rep_image.set_image(new_image), called directly
SetImage(r, new_image) ==
    /\ SynStopped
    /\ set_image_fits(image[r], new_image)
    /\ image' = set_image(image, r, new_image)
    /\ last_exit' = NoExit
    /\ pl' = NoPlace
    /\ SynClear
    /\ UNCHANGED << rep_objects, orig_image, devVars, stack, fnVars, swVars >>

\* with field_video.rep_images_as(tmp_images): up to the yield, or, when a
\* substitute does not fit, through the finally part and out with the error
EnterBlock(kind, targets, tmp_images) ==
    LET done == installed_prefix(image, tmp_images) \cap targets
        fits == \A r \in targets : set_image_fits(image[r], tmp_images[r])
    IN  /\ SynStopped
        /\ Len(stack) < MaxDepth
        /\ IF fits
           THEN /\ image' = install(image, tmp_images, targets)
                /\ stack' = Append(stack, Block(kind, targets, image))
                /\ last_exit' = NoExit
           ELSE /\ image' = restore(install(image, tmp_images, done), targets)
                /\ stack' = stack
                /\ last_exit' = [how |-> "install failed", targets |-> targets,
                                 before |-> image, installed |-> done]
        /\ pl' = NoPlace
        /\ SynClear
        /\ UNCHANGED << rep_objects, orig_image, devVars, fnVars, swVars >>

EnterRepImagesAs(tmp_images) == EnterBlock("rep_images_as", Reps, tmp_images)

\* with rep_image.image_as(tmp_image)
EnterImageAs(r, tmp_image) ==
    EnterBlock("image_as", {r}, [q \in Reps |-> IF q = r THEN tmp_image ELSE image[q]])

\* the innermost block ends: its body completed ("normal") or raised
\* ("raised"); either way the finally part runs
ExitBlock(how) ==
    /\ SynStopped
    /\ stack # << >>
    /\ image' = restore(image, Top.targets)
    /\ stack' = Pop(stack)
    /\ last_exit' = [how |-> how, targets |-> Top.targets,
                     before |-> Top.before, installed |-> Top.targets]
    /\ pl' = NoPlace
    /\ SynClear
    /\ UNCHANGED << rep_objects, orig_image, devVars, fnVars, swVars >>

\* obj.random_place(background), called directly on a zero canvas
PlaceCall(obj, ch, cw, k) ==
    /\ SynStopped
    /\ pl' \in random_place(obj, Flat(ch, cw, 0), k, image_cropped_base)
    /\ last_exit' = NoExit
    /\ SynClear
    /\ UNCHANGED << image, rep_objects, orig_image, devVars, stack, fnVars, swVars >>

\* the devices a tensor can be on
Devices == {"cpu", "cuda"}

\* rep_image.to(device, mask=mask): self.image = self.image.to(device) is the
\* same tensor when it is on that device already, and a copy on the device
\* otherwise; mask=True moves the class planes and the object masks of the
\* RepImage likewise, whose values stay what they are
To(r, d, mask) ==
    /\ SynStopped
    /\ device' = [device EXCEPT ![r] = d]
    /\ IF d = device[r]
       THEN UNCHANGED << aliased, detached >>
       ELSE /\ aliased' = [aliased EXCEPT ![r] = FALSE]
            /\ detached' = [detached EXCEPT ![r] = image_cropped_base[r]]
    /\ last_exit' = NoExit
    /\ pl' = NoPlace
    /\ SynClear
    /\ UNCHANGED << image, rep_objects, orig_image, stack, fnVars, swVars >>

(* ------------------------------ synthesize ---------------------------- *)

\* the unit of the normal sample x is 1 / SampleDen; samples are drawn from
\* the window -(1 + 1/SampleDen) <= x < MaxObj + 1
SampleDen == 3
MaxObj == 2
Samples == (0 - SampleDen - 1) .. ((MaxObj + 1) * SampleDen - 1)

\* a faulty variant: the nearest integer (halves upwards)
round_sample(k) == (2 * k + SampleDen) \div (2 * SampleDen)

\* int(x): the fraction is cut off, towards zero
int_sample(k) == IF k >= 0 THEN k \div SampleDen ELSE 0 - ((0 - k) \div SampleDen)

\* a faulty variant: the class is drawn among all classes
any_class(p) == Classes

\* the values rng.choice(range(n_class), p=prob) can return: the classes of
\* non-zero probability
choice_support(p) == p

\* the class-probability vectors a caller passes, by their support
Probs == {Prob(c) : c \in (SUBSET Classes) \ {{}}}

\* utils.make_foreground_augmentation() / make_background_augmentation():
\* an appearance-only transform of an image, one of the colour shifts
Augmentations == 0 .. MaxAug

\* foreground_augmentation(field_video): every live image transformed
foreground_augmentation(imgs, s) == [r \in Reps |-> Shifted(imgs[r], s)]

\* background_augmentation(frame)
background_augmentation(frame, s) == Shifted(frame, s)

\* YoloLabel.add(i_class=i_class, bbox=bbox) on a label of a w x h image
label_add(lab, cls, bbox, image_width, image_height) ==
    Append(lab, [i_class |-> cls,
                 yolo |-> bbox_to_yolo(bbox, image_width, image_height),
                 bbox |-> bbox])

\* synthesize(frame, field_video, prob) up to the first iteration: n_obj is
\* drawn, the images and the frame are augmented, the block is entered
SynCall(k, p, side, s_fg, s_bg) ==
    /\ SynStopped
    /\ Len(stack) < MaxDepth
    /\ x' = k
    /\ n_obj' = int_sample(k)
    /\ prob' = p
    /\ label' = << >>
    /\ placed' = << >>
    /\ it' = 0
    /\ i_class' = NoClass
    /\ objects' = << >>
    /\ frame_aug' = background_augmentation(Flat(side, side, 0), s_bg)
    /\ image' = install(image, foreground_augmentation(image, s_fg), Reps)
    /\ stack' = Append(stack, Block("rep_images_as", Reps, image))
    /\ syn_pc' = "loop"
    /\ last_exit' = NoExit
    /\ pl' = NoPlace
    /\ UNCHANGED << rep_objects, orig_image, devVars, fnVars, swVars >>

\* for _ in range(n_obj): one more iteration begins
SynIterate ==
    /\ syn_pc = "loop"
    /\ it < n_obj
    /\ IF ~prob.given
       THEN objects' = get_objects(NoKwargs) /\ syn_pc' = "choose"
       ELSE objects' = objects /\ syn_pc' = "draw"
    /\ UNCHANGED << x, n_obj, it, prob, i_class, frame_aug, label, placed, apiVars, pl, fnVars, swVars >>

\* a faulty variant: the loop is left on no list of objects
never_leaves(objs) == FALSE

\* if objects: break
leaves_loop(objs) == objs # << >>

\* one turn of the while True loop: a class is drawn and its objects are
\* fetched; the loop goes round again when there is none
SynDrawClass(c) ==
    /\ syn_pc = "draw"
    /\ c \in choice_support(prob.support)
    /\ i_class' = c
    /\ objects' = get_objects(ByClass(c))
    /\ syn_pc' = IF leaves_loop(get_objects(ByClass(c))) THEN "choose" ELSE "draw"
    /\ UNCHANGED << x, n_obj, it, prob, frame_aug, label, placed, apiVars, pl, fnVars, swVars >>

\* the block of synthesize ends with `how`: the finally part of rep_images_as
SynLeave(how, pc) ==
    /\ image' = restore(image, Reps)
    /\ stack' = Pop(stack)
    /\ last_exit' = [how |-> how, targets |-> Reps,
                     before |-> Top.before, installed |-> Reps]
    /\ syn_pc' = pc

\* obj = rng.choice(objects); bbox = obj.random_place(frame_aug);
\* label.add(i_class=obj.i_class, bbox=bbox).  An error of random_place
\* leaves the block and synthesize.
SynPlace(i, k) ==
    /\ syn_pc = "choose"
    /\ i \in 1 .. Len(objects)
    /\ pl' \in random_place(objects[i], frame_aug, k, image_cropped_base)
    /\ IF pl'.outcome = "ok"
       THEN /\ frame_aug' = pl'.after
            /\ label' = label_add(label, objects[i].i_class, pl'.bbox, frame_aug.w, frame_aug.h)
            /\ placed' = Append(placed, objects[i])
            /\ it' = it + 1
            /\ syn_pc' = "loop"
            /\ UNCHANGED << image, stack, last_exit >>
       ELSE /\ SynLeave("raised", "failed")
            /\ frame_aug' = pl'.after
            /\ UNCHANGED << label, placed, it >>
    /\ UNCHANGED << x, n_obj, prob, i_class, objects, rep_objects, orig_image, devVars, fnVars, swVars >>

\* the loop is over: the block ends and (frame_aug, label) is returned
SynReturn ==
    /\ syn_pc = "loop"
    /\ it >= n_obj
    /\ SynLeave("normal", "done")
    /\ pl' = NoPlace
    /\ UNCHANGED << x, n_obj, it, prob, i_class, objects, frame_aug, label, placed,
                    rep_objects, orig_image, devVars, fnVars, swVars >>

(* --------------------- generate_rotated_rep_image --------------------- *)

\* for degree in range(360)
Degrees == 360

\* The ring of a 3 x 3 tensor: the eight pixels around the centre, counted
\* counter-clockwise from the east one.
RingPos == << << 1, 2 >>, << 0, 2 >>, << 0, 1 >>, << 0, 0 >>,
             << 1, 0 >>, << 2, 0 >>, << 2, 1 >>, << 2, 2 >> >>
RingIdx(p) == CHOOSE j \in 0 .. 7 : RingPos[j + 1] = p
EdgeIdx == {0, 2, 4, 6}

\* How far (in ring places) the pixel that a ring pixel shows lies behind
\* it, for a rotation by t degrees, 0 <= t < 90.  rotate keeps the size
\* (expand=False) and samples the nearest pixel about the centre: the pixel
\* at offset R(-t)(x, y) rounded.  An edge pixel (1, 0) reads
\* (cos t, -sin t): the same edge below 30 degrees, the corner behind it
\* between 30 and 60, the edge behind that above 60; at 30 and at 60 a
\* coordinate is 0.5 up to the rounding error of the floats, and `up` tells
\* which way it falls.  A corner pixel reads sqrt 2 (cos(45 - t), sin(45 - t)),
\* whose second coordinate rounds to 1, 0, -1 for t < 24.3, t < 65.7, above.
ring_step(j, t, up) ==
    IF j \in EdgeIdx
    THEN CASE t < 30 -> 0
           [] t = 30 -> up
           [] t > 30 /\ t < 60 -> 1
           [] t = 60 -> 1 + up
           [] t > 60 -> 2
    ELSE CASE t <= 24 -> 0
           [] t >= 25 /\ t <= 65 -> 1
           [] t >= 66 -> 2

\* the ways the coordinates that are 0.5 at this degree can fall
Ties(degree) ==
    IF degree % 90 \in {30, 60} THEN [EdgeIdx -> {0, 1}] ELSE {[j \in EdgeIdx |-> 0]}

\* torchvision.transforms.functional.rotate(concat, degree) on 3 x 3
\* tensors: the pixel of the input that output pixel p shows.  The centre
\* shows the centre; a ring pixel shows a ring pixel.
rotate_src(p, degree, tie) ==
    IF p = << 1, 1 >> THEN p
    ELSE LET j == RingIdx(p)
             up == IF j \in EdgeIdx THEN tie[j] ELSE 0
             back == 2 * (degree \div 90) + ring_step(j, degree % 90, up)
         IN  RingPos[((j + 8 - back) % 8) + 1]

\* rotated = rotate(concat, degree); image, classwise_mask = torch.split(...)
rotate_concat(concat, degree, tie) ==
    [image |-> Image(concat.image.h, concat.image.w,
                     [p \in DOMAIN concat.image.px |->
                         concat.image.px[rotate_src(p, degree, tie)]]),
     classwise_mask |->
        [c \in DOMAIN concat.classwise_mask |->
            LET m == concat.classwise_mask[c]
            IN  Plane(m.h, m.w, {p \in Pos(m.h, m.w) : rotate_src(p, degree, tie) \in m.on})]]

RECURSIVE add_boxes(_, _, _, _, _)
\* for bbox in bboxes: label.add(i_class=i_class, bbox=bbox), with
\* bboxes = get_bbox(objectwise_mask[i_class])
add_boxes(lab, cls, masks, image_width, image_height) ==
    IF masks = << >> THEN lab
    ELSE add_boxes(label_add(lab, cls, get_bbox(Head(masks)), image_width, image_height),
                   cls, Tail(masks), image_width, image_height)

RECURSIVE add_classes(_, _, _, _, _)
\* for i_class in range(n_class), from class `from` on
add_classes(lab, from, objectwise_mask, n_class, img) ==
    IF from >= n_class THEN lab
    ELSE add_classes(add_boxes(lab, from, objectwise_mask[from], img.w, img.h),
                     from + 1, objectwise_mask, n_class, img)

\* _generate_rotated_rep_image_impl(concat, degree=degree, n_class=n_class)
generate_rotated_rep_image_impl(concat, degree, n_class, tie) ==
    LET rotated == rotate_concat(concat, degree, tie)
        objectwise_mask == make_objectwise_mask(rotated.classwise_mask, n_class)
    IN  [image |-> rotated.image,
         label |-> add_classes(<< >>, 0, objectwise_mask, n_class, rotated.image)]

\* generate_rotated_rep_image(rep_image, ...) up to the loop:
\* concat = torch.cat([rep_image.image, rep_image.classwise_mask])
SweepCall(r) ==
    /\ sw_pc = "idle"
    /\ sw_concat' = [image |-> image[r], classwise_mask |-> classwise_mask(r)]
    /\ sw_degree' = NoDegree
    /\ sw_image' = NoImage
    /\ sw_label' = << >>
    /\ sw_count' = 0
    /\ sw_pc' = "loop"
    /\ UNCHANGED << apiVars, pl, synVars, fnVars >>

\* one iteration of the loop: the pair of the next degree is made and
\* saved, and counter() is called
SweepEmit(tie) ==
    /\ sw_pc = "loop"
    /\ sw_degree + 1 < Degrees
    /\ LET pair == generate_rotated_rep_image_impl(sw_concat, sw_degree + 1, NClass, tie)
       IN  sw_image' = pair.image /\ sw_label' = pair.label
    /\ sw_degree' = sw_degree + 1
    /\ sw_count' = sw_count + 1
    /\ UNCHANGED << sw_pc, sw_concat, apiVars, pl, synVars, fnVars >>

\* range(360) is exhausted: the call returns
SweepReturn ==
    /\ sw_pc = "loop"
    /\ sw_degree + 1 >= Degrees
    /\ sw_pc' = "done"
    /\ UNCHANGED << sw_concat, sw_degree, sw_image, sw_label, sw_count,
                    apiVars, pl, synVars, fnVars >>

(* -------------------------- the specifications ------------------------ *)

Init == ApiRest /\ SynRest /\ FnRest /\ SwRest

\* The substitution blocks under every order of client calls, synthesize
\* among them (with a sample of 0 or 1, on a frame of the images' size).
Next ==
    \/ \E r \in Reps : \E t \in (TmpImages(r) \cup {orig_image[r]}) : SetImage(r, t)
    \/ \E tmp \in [Reps -> UNION {TmpImages(r) : r \in Reps}] :
          (\A r \in Reps : tmp[r] \in TmpImages(r)) /\ EnterRepImagesAs(tmp)
    \/ \E r \in Reps : \E t \in TmpImages(r) : EnterImageAs(r, t)
    \/ \E how \in {"normal", "raised"} : ExitBlock(how)
    \/ \E k \in {0, SampleDen} : \E p \in {NoProb, Prob({0})} : \E s_fg \in Augmentations :
          SynCall(k, p, RepH, s_fg, 0)
    \/ SynIterate
    \/ \E c \in Classes : SynDrawClass(c)
    \/ \E i \in 1 .. Len(objects) : \E k \in QuarterTurns : SynPlace(i, k)
    \/ SynReturn

Spec == Init /\ [][Next]_vars

\* random_place called once, on a canvas of every size, the images pristine
\* or replaced
PlaceNext ==
    \/ \E r \in Reps : \E t \in (TmpImages(r) \cup {orig_image[r]}) : SetImage(r, t)
    \/ \E obj \in AllObjects : \E ch, cw \in 1 .. MaxCanvas : \E k \in QuarterTurns :
          pl = NoPlace /\ PlaceCall(obj, ch, cw, k)

PlaceSpec == Init /\ [][PlaceNext]_vars

\* one call of synthesize, on every sample, class-probability vector, frame
\* size and augmentation
SynNext ==
    \/ \E k \in Samples : \E p \in Probs \cup {NoProb} : \E side \in 2 .. MaxCanvas :
          \E s_fg, s_bg \in Augmentations :
              syn_pc = "idle" /\ SynCall(k, p, side, s_fg, s_bg)
    \/ SynIterate
    \/ \E c \in Classes : SynDrawClass(c)
    \/ \E i \in 1 .. Len(objects) : \E k \in QuarterTurns : SynPlace(i, k)
    \/ SynReturn

SynSpec == Init /\ [][SynNext]_vars

\* a step of synthesize other than a turn of the class selection loop
SynStep ==
    \/ SynIterate
    \/ \E i \in 1 .. Len(objects) : \E k \in QuarterTurns : SynPlace(i, k)
    \/ SynReturn

\* one call of synthesize with a class-probability vector, on a sample of 1
\* to MaxObj and a frame of the images' size
SynFairNext ==
    \/ \E n \in 1 .. MaxObj : \E p \in Probs :
          syn_pc = "idle" /\ SynCall(n * SampleDen, p, RepH, 0, 0)
    \/ \E c \in Classes : SynDrawClass(c)
    \/ SynStep

\* the interpreter keeps running synthesize, and the generator, over the
\* turns of a loop, returns every class of non-zero probability
SynFairness ==
    /\ WF_vars(SynStep)
    /\ \A c \in Classes : WF_vars(SynDrawClass(c))

SynFairSpec == Init /\ [][SynFairNext]_vars /\ SynFairness

\* the rotation sweep of each representative image
SweepNext ==
    \/ \E r \in Reps : SweepCall(r)
    \/ \E tie \in Ties(sw_degree + 1) : SweepEmit(tie)
    \/ SweepReturn

SweepSpec == Init /\ [][SweepNext]_vars

\* the substitution blocks, set_image and to under every order of client
\* calls, and one call of random_place on a canvas of the images' size,
\* unrotated or rotated by a quarter turn
AliasNext ==
    \/ \E r \in Reps : \E t \in (TmpImages(r) \cup {orig_image[r]}) : SetImage(r, t)
    \/ \E tmp \in [Reps -> UNION {TmpImages(r) : r \in Reps}] :
          (\A r \in Reps : tmp[r] \in TmpImages(r)) /\ EnterRepImagesAs(tmp)
    \/ \E r \in Reps : \E t \in TmpImages(r) : EnterImageAs(r, t)
    \/ \E how \in {"normal", "raised"} : ExitBlock(how)
    \/ \E r \in Reps : \E d \in Devices : \E mask \in BOOLEAN : To(r, d, mask)
    \/ \E obj \in AllObjects : \E k \in {0, 1} :
          pl = NoPlace /\ PlaceCall(obj, RepH, RepW, k)

AliasSpec == Init /\ [][AliasNext]_vars

(* ------------------- the substitution blocks: claims ------------------ *)

\* C1, as claimed: when a rep_images_as / image_as block has ended - its
\* body completed, its body raised, or a substitute did not fit - every
\* image of the block is what it was just before the block began; and
\* synthesize has returned or failed only after its block ended so.
C1_RestoredToStateBefore ==
    /\ last_exit.how # "none" =>
          \A r \in last_exit.targets : image[r] = last_exit.before[r]
    /\ syn_pc \in {"done", "failed"} =>
          /\ last_exit.how \in {"normal", "raised"}
          /\ \A r \in Reps : image[r] = last_exit.before[r]

\* C1, amended: when a block has ended, on any of the three paths, every
\* image of the block equals its pristine copy orig_image, which is the image
\* read at construction; and synthesize has returned or failed only after
\* its block ended so.
C1_RestoredToPristine ==
    /\ orig_image = [r \in Reps |-> read_image(r)]
    /\ last_exit.how # "none" =>
          \A r \in last_exit.targets : image[r] = orig_image[r]
    /\ syn_pc \in {"done", "failed"} =>
          /\ last_exit.how \in {"normal", "raised"}
          /\ \A r \in Reps : image[r] = orig_image[r]

\* C1, witness: a block whose second substitute did not fit has ended after
\* the first image had been substituted, and the images are pristine
C1_Witness ==
    /\ last_exit.how = "install failed"
    /\ last_exit.installed # {}
    /\ last_exit.installed # last_exit.targets
    /\ image = orig_image

\* C7: no representative image is the target of two open blocks: a second
\* substitution on an image whose first has not restored does not install.
C7_NoSecondSubstitution ==
    \A i, j \in 1 .. Len(stack) :
        i < j => stack[i].targets \cap stack[j].targets = {}

(* ------------------------ random_place: claims ------------------------ *)

\* C4: after a successful random_place with offset (top, left), every
\* background pixel (top + r, left + c) at which the rotated mask is true at
\* (r, c) equals the rotated cropped image at (r, c), and every other
\* background pixel is what it was before the call.
C4_MaskedPaste ==
    pl.outcome = "ok" =>
        /\ SameSize(pl.after, pl.before)
        /\ \A p \in DOMAIN pl.after.px :
              LET q == << p[1] - pl.top, p[2] - pl.left >>
              IN  IF q \in pl.mask_cropped.on
                  THEN pl.after.px[p] = pl.image_cropped.px[q]
                  ELSE pl.after.px[p] = pl.before.px[p]

\* C4, witness: a successful placement whose h x w rectangle holds a pixel
\* the rotated mask leaves out, and which changed the background
C4_Witness ==
    /\ pl.outcome = "ok"
    /\ Pos(pl.h, pl.w) \ pl.mask_cropped.on # {}
    /\ pl.after # pl.before

\* C8: on a canvas of size H x W and a transformed crop of size h x w, a
\* call with h >= H or w >= W fails and leaves the canvas as it was, and a
\* call that succeeds drew 0 <= top < H - h and 0 <= left < W - w, so that
\* its box lies within the canvas.
C8_PlacementInsideCanvas ==
    pl.outcome # "none" =>
        LET H == pl.before.h
            W == pl.before.w
        IN  /\ (pl.h >= H \/ pl.w >= W) => (pl.outcome # "ok" /\ pl.after = pl.before)
            /\ pl.outcome = "ok" =>
                  /\ 0 <= pl.top /\ pl.top < H - pl.h
                  /\ 0 <= pl.left /\ pl.left < W - pl.w
                  /\ 0 <= pl.bbox.top /\ pl.bbox.bottom <= H
                  /\ 0 <= pl.bbox.left /\ pl.bbox.right <= W

(* ----------------------- rotation sweep: claims ---------------------- *)

\* C6: the sweep saves one pair per degree 0..359 in ascending order, 360
\* when it returns, and every box of every saved label satisfies
\* 0 <= left < right <= W and 0 <= top < bottom <= H.
C6_SweepPairsAndBoxes ==
    /\ sw_pc # "idle" => (sw_count = sw_degree + 1 /\ sw_count <= Degrees)
    /\ sw_pc = "done" => sw_count = Degrees
    /\ \A i \in 1 .. Len(sw_label) :
          LET b == sw_label[i].bbox
          IN  /\ 0 <= b.left /\ b.left < b.right /\ b.right <= RepW
              /\ 0 <= b.top /\ b.top < b.bottom /\ b.bottom <= RepH

(* ------------------------ crop aliasing: claims ----------------------- *)

\* the pixels of obj.image_cropped
image_cropped(obj) == crop_image(obj.bbox, image_cropped_base[obj.rep])

\* C11: after any sequence of set_image, image_as / rep_images_as blocks and
\* to(device) calls, the image_cropped of every object equals the region
\* [top:bottom, left:right] of the live image of its representative image,
\* and a successful random_place has pasted from the rotated region of that
\* live image (the substitute inside a block, the pristine image after it).
C11_CropsFollowLiveImage ==
    /\ \A obj \in AllObjects :
          image_cropped(obj) = crop_image(obj.bbox, image[obj.rep])
    /\ pl.outcome = "ok" =>
          pl.image_cropped = rotate_image(crop_image(pl.obj.bbox, image[pl.obj.rep]), pl.k)

(* ------------------------- synthesize: claims ------------------------- *)

\* the number of iterations range(n_obj) makes
Iterations == IF n_obj > 0 THEN n_obj ELSE 0

\* C5: with a class-probability vector every object placed is of a class of
\* non-zero probability; the label holds one entry per placement, in
\* placement order, tagged with the class of the object placed and holding
\* the box random_place returned, and exactly n entries when synthesize
\* returns; with class 2 the only class of non-zero probability the one
\* class-2 object of the pool is placed every time.
C5_ClassRestricted ==
    prob.given =>
        /\ Len(label) = it /\ Len(placed) = it
        /\ \A i \in 1 .. Len(placed) :
              /\ placed[i].i_class \in prob.support
              /\ label[i].i_class = placed[i].i_class
        /\ (syn_pc = "loop" /\ pl.outcome = "ok") =>
              /\ placed[it] = pl.obj
              /\ label[it].bbox = pl.bbox
        /\ syn_pc = "done" => Len(label) = Iterations
        /\ prob.support = {2} =>
              /\ Len(get_objects(ByClass(2))) = 1
              /\ \A i \in 1 .. Len(placed) :
                    placed[i] = get_objects(ByClass(2))[1] /\ label[i].i_class = 2

\* C5, witness: synthesize has returned after placing the class-2 object
\* twice under a vector whose only non-zero entry is class 2
C5_Witness ==
    /\ syn_pc = "done"
    /\ prob.given /\ prob.support = {2}
    /\ n_obj = 2 /\ Len(label) = 2
    /\ label[1].i_class = 2 /\ label[2].i_class = 2

\* C9, as claimed: when synthesize returns, the number of placement
\* iterations made (and of label entries) is a nearest integer to the sample
\* x, clamped to >= 0.
C9_CountIsRounded ==
    syn_pc = "done" =>
        /\ \E m \in (0 - 2) .. (MaxObj + 1) :
              /\ 2 * Abs(m * SampleDen - x) <= SampleDen
              /\ it = IF m > 0 THEN m ELSE 0
        /\ Len(label) = it

\* C9, amended: when synthesize returns, the number of placement iterations
\* made (and of label entries) is the sample x with its fraction cut off,
\* clamped to >= 0: the largest integer <= x for x >= 0, and 0 for x < 0.
C9_CountIsTruncated ==
    syn_pc = "done" =>
        /\ x >= 0 => (it * SampleDen <= x /\ x < (it + 1) * SampleDen)
        /\ x < 0 => it = 0
        /\ Len(label) = it

\* C9, witness: synthesize has returned on a sample above 1 whose fraction
\* exceeds one half, where rounding and cutting differ
C9_Witness ==
    /\ syn_pc = "done"
    /\ x > SampleDen
    /\ 2 * (x % SampleDen) > SampleDen
    /\ it >= 1

\* a class of non-zero probability has an object
SupportHasObject == \E c \in prob.support : get_objects(ByClass(c)) # << >>

SynRunning == syn_pc \in {"loop", "draw", "choose"}

\* C10: in a call with a class-probability vector of which a class of
\* non-zero probability has an object, under fair sampling every class
\* selection loop is left, and the call ends - returned or failed - with the
\* images restored.
C10_ResamplingTerminates ==
    /\ (syn_pc = "draw" /\ SupportHasObject) ~> (syn_pc # "draw")
    /\ (SynRunning /\ prob.given /\ SupportHasObject)
          ~> (syn_pc \in {"done", "failed"} /\ image = orig_image)

\* C10, witness: the loop has drawn a class without objects, and goes round
\* again, in a call whose vector gives another class, with objects, non-zero
\* probability
C10_Witness ==
    /\ syn_pc = "draw"
    /\ i_class \in prob.support
    /\ get_objects(ByClass(i_class)) = << >>
    /\ SupportHasObject

=============================================================================
